---- MODULE Spec2Model ----
(***************************************************************************)
(* Model of the card-recommendation backend (src/backend): the rate-string *)
(* normalizers, the rankers, the consistency pass and the reward           *)
(* calculator.                                                             *)
(*                                                                         *)
(* Money: purchase amounts and rewards are integers in cents, annual fees  *)
(* are integers in dollars.  An unrounded float product is kept as an      *)
(* exact fraction [num, den] of cents; round(v, 2) is Round2.              *)
(* Strings: a rate string is a sequence of tokens.  A token is one         *)
(* character ("3", ".", "%", "x", "X", " ", "g") or one of the words       *)
(* "point" / "mile" that the code tests with the `in` operator.            *)
(***************************************************************************)
EXTENDS Integers, Sequences, FiniteSets, TLC

VARIABLES op, arg, ret, table

vars == <<op, arg, ret, table>>

(***************************************************************************)
(* Bounds of the model.                                                    *)
(***************************************************************************)
MaxLen == 4

(***************************************************************************)
(* Characters and regular-expression classes (Python re, \d \s \b).        *)
(***************************************************************************)
Digits == {"0", "1", "2", "3", "4", "5", "6", "7", "8", "9"}

IsDigit(t) == t \in Digits

IsSpace(t) == t = " "

\* \w : every character of the token is a letter, a digit or "_"
IsWordChar(t) == t \in Digits \cup {"x", "X", "g", "point", "mile"}

DigitVal(t) ==
  CASE t = "0" -> 0 [] t = "1" -> 1 [] t = "2" -> 2 [] t = "3" -> 3
    [] t = "4" -> 4 [] t = "5" -> 5 [] t = "6" -> 6 [] t = "7" -> 7
    [] t = "8" -> 8 [] t = "9" -> 9

\* str.lower(), over the tokens that carry capitals
lower(s) ==
  [i \in DOMAIN s |->
     CASE s[i] = "X" -> "x"
       [] s[i] = "Weekly" -> "weekly"
       [] s[i] = "Every Month" -> "every month"
       [] s[i] = "DAILY" -> "daily"
       [] s[i] = "Starbucks" -> "starbucks"
       [] s[i] = "NerdWallet.com" -> "nerdwallet.com"
       [] OTHER -> s[i]]

\* substring test  w in s  for the words "point" and "mile"
Contains(s, w) == \E i \in DOMAIN s : s[i] = w

RECURSIVE Pow10(_)
Pow10(n) == IF n = 0 THEN 1 ELSE 10 * Pow10(n - 1)

SetMin(S) == CHOOSE x \in S : \A y \in S : x <= y

\* Op(x), with x evaluated once (a local variable holding the value of x)
Bind(x, Op(_)) == CHOOSE r \in {Op(v) : v \in {x}} : TRUE

\* first position at or after i that holds no digit (Len(s)+1 if none)
RunEnd(s, i) ==
  SetMin({j \in i..(Len(s) + 1) : j = Len(s) + 1 \/ ~IsDigit(s[j])})

\* end (exclusive) of the greedy match of \d+(?:\.\d+)? that starts at digit i
NumberEnd(s, i) ==
  LET j == RunEnd(s, i)
  IN  IF j + 1 <= Len(s) /\ s[j] = "." /\ IsDigit(s[j + 1])
      THEN RunEnd(s, j + 1)
      ELSE j

\* first position at or after j that holds no whitespace
SkipSpaces(s, j) ==
  SetMin({k \in j..(Len(s) + 1) : k = Len(s) + 1 \/ ~IsSpace(s[k])})

RECURSIVE Mantissa(_)
Mantissa(ds) ==
  IF ds = <<>> THEN 0
  ELSE 10 * Mantissa(SubSeq(ds, 1, Len(ds) - 1)) + DigitVal(ds[Len(ds)])

\* float(text of s[i..e-1]) as the exact decimal [mant / 10^scale]
NumberValue(s, i, e) ==
  LET txt == SubSeq(s, i, e - 1)
      dot == {k \in DOMAIN txt : txt[k] = "."}
  IN  [mant  |-> Mantissa(SelectSeq(txt, IsDigit)),
       scale |-> IF dot = {} THEN 0 ELSE Len(txt) - SetMin(dot)]

\* \b at the gap in front of position p
WordBoundary(s, p) ==
  (p - 1 >= 1 /\ IsWordChar(s[p - 1])) # (p <= Len(s) /\ IsWordChar(s[p]))

(***************************************************************************)
(* Floats.  [num / den] is the exact value of an unrounded product, in     *)
(* cents; den > 0.                                                         *)
(***************************************************************************)
RECURSIVE Gcd(_, _)
Gcd(a, b) == IF b = 0 THEN a ELSE Gcd(b, a % b)

\* n / d in lowest terms (n >= 0, d > 0)
Frac(n, d) == LET g == Gcd(n, d) IN [num |-> n \div g, den |-> d \div g]

\* f * n / d
FracMul(f, n, d) ==
  LET a == Frac(f.num, d)
      b == Frac(n, f.den)
  IN  Frac(a.num * b.num, a.den * b.den)

\* whole + f rounded to the nearest integer, an exact half going to the even one
RoundPlus(whole, f) ==
  LET q == whole + (f.num \div f.den)
      r == f.num % f.den
  IN  IF 2 * r < f.den THEN q
      ELSE IF 2 * r > f.den THEN q + 1
      ELSE IF q % 2 = 0 THEN q ELSE q + 1

\* round(v, 2): the nearest cent
Round2(f) == RoundPlus(0, f)

\* round(v - annual_fee / 365, 2), annual_fee in dollars
Round2LessDailyFee(f, annual_fee) ==
  RoundPlus(f.num \div f.den,
            [num |-> 365 * (f.num % f.den) - 100 * annual_fee * f.den,
             den |-> 365 * f.den])

\* the Python value None where a rate string is expected
None == <<"None">>

\* a key the dictionary does not have
Missing == <<"Missing">>

Raise == [kind |-> "raise", value |-> 0]

Ok(v) == [kind |-> "ok", value |-> v]

(***************************************************************************)
(* re.search(r'(\d+(?:\.\d+)?)\s*<sfx>\b', s): the start of the leftmost   *)
(* match, 0 for no match.  The number must run to the end of its digits    *)
(* (a shorter number is followed by a digit or a dot, never by \s or sfx). *)
(***************************************************************************)
SuffixMatchAt(s, i, sfx) ==
  /\ IsDigit(s[i])
  /\ LET k == SkipSpaces(s, NumberEnd(s, i))
     IN  /\ k <= Len(s)
         /\ s[k] = sfx
         /\ WordBoundary(s, k + 1)

SearchSuffix(s, sfx) ==
  LET M == {i \in DOMAIN s : SuffixMatchAt(s, i, sfx)}
  IN  IF M = {} THEN 0 ELSE SetMin(M)

\* re.search(r'(\d+(?:\.\d+)?)', s): the start of the leftmost number, 0 if none
SearchNumber(s) ==
  LET M == {i \in DOMAIN s : IsDigit(s[i])}
  IN  IF M = {} THEN 0 ELSE SetMin(M)

\* match.group(1) as a decimal
Group1(s, i) == NumberValue(s, i, NumberEnd(s, i))

\* amount * 0.02, the default baseline
DefaultReward(amount) == Frac(amount * 2, 100)

\* amount * (pct / 100)
PercentReward(amount, v) == FracMul(Frac(amount, 100), v.mant, Pow10(v.scale))

\* amount * x * 0.015
PointsReward(amount, v) == FracMul(Frac(amount * 15, 1000), v.mant, Pow10(v.scale))

(***************************************************************************)
(* fallback_responses.py: compute_reward_amount inside                     *)
(* get_fallback_recommendation.  Returns cents.                            *)
(***************************************************************************)
compute_reward_amount(rate_str, amount) ==
  IF rate_str = None \/ rate_str = <<>> THEN Round2(DefaultReward(amount))
  ELSE LET s    == lower(rate_str)
           pct  == SearchSuffix(s, "%")
           mult == SearchSuffix(s, "x")
       IN  IF pct # 0
           THEN Round2(PercentReward(amount, Group1(s, pct)))
           ELSE IF mult # 0 /\ (Contains(s, "point") \/ Contains(s, "mile"))
           THEN Round2(PointsReward(amount, Group1(s, mult)))
           ELSE Round2(DefaultReward(amount))

(***************************************************************************)
(* claude_service.py: compute_reward_amount inside _fallback_recommendation*)
(***************************************************************************)
compute_reward_amount_cs(rate_str, amt) ==
  IF rate_str = None \/ rate_str = <<>> THEN Round2(DefaultReward(amt))
  ELSE LET s    == lower(rate_str)
           pct  == SearchSuffix(s, "%")
           mult == SearchSuffix(s, "x")
       IN  IF pct # 0
           THEN Round2(PercentReward(amt, Group1(s, pct)))
           ELSE IF mult # 0 /\ (Contains(s, "point") \/ Contains(s, "mile"))
           THEN Round2(PointsReward(amt, Group1(s, mult)))
           ELSE Round2(DefaultReward(amt))

(***************************************************************************)
(* card_optimizer.py: CardOptimizer.compare_cards                          *)
(* A card_info is [category_rate, annual_fee, card_name]; category_rate is *)
(* a string, None or Missing.                                              *)
(***************************************************************************)
\* card_info.get("category_rate", "2%")
CategoryRate(card_info) ==
  IF card_info.category_rate = Missing THEN <<"2", "%">>
  ELSE card_info.category_rate

\* the unrounded reward_amount of one card (lines 78-98)
CardReward(card_info, amount) ==
  LET rate_str   == CategoryRate(card_info)
      rate_match == SearchNumber(rate_str)
      rate       == IF rate_match # 0 THEN Group1(rate_str, rate_match)
                    ELSE [mant |-> 2, scale |-> 0]
      is_points  == Contains(lower(rate_str), "point")
                      \/ Contains(lower(rate_str), "mile")
  IN  IF is_points THEN PointsReward(amount, rate)
      ELSE PercentReward(amount, rate)

\* one element of comparisons (lines 100-107)
Comparison(card_info, amount) ==
  LET reward_amount == CardReward(card_info, amount)
  IN  [card_name     |-> card_info.card_name,
       reward_amount |-> Round2(reward_amount),
       reward_rate   |-> card_info.category_rate,
       annual_fee    |-> card_info.annual_fee,
       net_value     |-> Round2LessDailyFee(reward_amount, card_info.annual_fee)]

\* list.sort(key=lambda t: t.key, reverse=True): stable, descending by key;
\* the elements are [key, item] pairs
RECURSIVE InsertDesc(_, _)
InsertDesc(sorted, x) ==
  IF sorted = <<>> THEN <<x>>
  ELSE IF x.key > Head(sorted).key THEN <<x>> \o sorted
  ELSE <<Head(sorted)>> \o InsertDesc(Tail(sorted), x)

RECURSIVE SortDesc(_)
SortDesc(seq) ==
  IF seq = <<>> THEN <<>>
  ELSE InsertDesc(SortDesc(SubSeq(seq, 1, Len(seq) - 1)), seq[Len(seq)])

Items(pairs) == [i \in DOMAIN pairs |-> pairs[i].item]

\* the key of the sort in compare_cards (line 110)
CompareKey(x) == x.reward_amount

compare_cards(cards, transaction) ==
  IF \E i \in DOMAIN cards : cards[i].category_rate = None
  THEN Raise   \* re.search(pattern, None) raises TypeError, nothing catches it
  ELSE LET comparisons ==
             [i \in DOMAIN cards |-> Comparison(cards[i], transaction.amount)]
       IN  Ok(Items(SortDesc([i \in DOMAIN comparisons |->
                                [key |-> CompareKey(comparisons[i]),
                                 item |-> comparisons[i]]])))

(***************************************************************************)
(* Recommendation entries.  An entry is a dict with the keys the code      *)
(* reads; a key that is absent reads as its .get() default (0, "").        *)
(* reward_amount is in cents, annual_fee in dollars.  ai_reasoning is the  *)
(* text's identity: "orig" (as written by its author), or the text a       *)
(* reordering step wrote.                                                  *)
(***************************************************************************)
Entry(name, reward, rate, fee, source) ==
  [name |-> name, reward_amount |-> reward, reward_rate |-> rate,
   annual_fee |-> fee, ai_reasoning |-> "orig", data_source |-> source]

\* result.get(key, {}) of a key that is absent
NoEntry == Entry("", 0, <<>>, 0, "")

\* reward - annual_fee / 365, scaled by 365 (in cents)
DailyNet(e) == 365 * e.reward_amount - 100 * e.annual_fee

\* reward * frequency - annual_fee (in cents)
AnnualNet(e, frequency) == e.reward_amount * frequency - 100 * e.annual_fee

(***************************************************************************)
(* Query text: a sequence of tokens, a token being one character of an     *)
(* amount ("$", a digit, ",", "."), a blank, or a whole word.              *)
(***************************************************************************)
IsAmountChar(t) == IsDigit(t) \/ t = ","

\* any(word in text for word in words)
AnyIn(words, text) == \E i \in DOMAIN text : text[i] \in words

\* re.search(r'\$?([\d,]+\.?\d*)', query): the start of group 1, 0 if no match
AmountSearch(query) ==
  LET M == {i \in DOMAIN query : IsAmountChar(query[i])}
  IN  IF M = {} THEN 0 ELSE SetMin(M)

\* the end (exclusive) of group 1 that starts at i
AmountEnd(query, i) ==
  LET j == SetMin({k \in i..(Len(query) + 1) :
                     k = Len(query) + 1 \/ ~IsAmountChar(query[k])})
  IN  IF j <= Len(query) /\ query[j] = "." THEN RunEnd(query, j + 1) ELSE j

NotComma(t) == t # ","

\* float(group.replace(',', '')) in cents; ValueError when no digit is left.
\* Query amounts carry at most two decimals.
AmountFloat(query, i) ==
  LET txt == SelectSeq(SubSeq(query, i, AmountEnd(query, i) - 1), NotComma)
      v   == NumberValue(txt, 1, Len(txt) + 1)
  IN  IF SelectSeq(txt, IsDigit) = <<>> THEN Raise
      ELSE Ok(v.mant * Pow10(2 - v.scale))

(***************************************************************************)
(* The frequency rule (card_optimizer.py 129-141, claude_service.py        *)
(* 130-138 and 276-283): the cue phrases are tokens of the query.          *)
(***************************************************************************)
\* the frequency rule with the daily cue tested first
FrequencyDailyFirst(query) ==
  IF AnyIn({"every day", "daily"}, query) THEN 365
  ELSE IF AnyIn({"every week", "weekly"}, query) THEN 52
  ELSE IF AnyIn({"every month", "monthly"}, query) THEN 12
  ELSE 1

Frequency(query) ==
  IF AnyIn({"every week", "weekly"}, query) THEN 52
  ELSE IF AnyIn({"every month", "monthly"}, query) THEN 12
  ELSE IF AnyIn({"every day", "daily"}, query) THEN 365
  ELSE 1

(***************************************************************************)
(* fallback_responses.py: FALLBACK_RESPONSES, the module-level table, and  *)
(* the generic response built by each call.  The tail of a reward_rate     *)
(* text (letters and blanks only) is shortened to " g" / "g".              *)
(***************************************************************************)
FallbackLabel == "FALLBACK: Demo data (API unavailable)"

Slots == <<"best_overall", "runner_up", "alternative">>

FALLBACK_RESPONSES ==
  [dining |->
     [amount |-> 2500,
      recommendation |->
        [best_overall |-> Entry("Capital One Savor", 22,
                                <<"4", "%", " ", "g">>, 95, FallbackLabel),
         runner_up    |-> Entry("Chase Sapphire Preferred", 17,
                                <<"3", "x", " ", "point", "g">>, 95, FallbackLabel),
         alternative  |-> Entry("Citi Double Cash", 11,
                                <<"2", "%", " ", "g">>, 0, FallbackLabel)]],
   grocery |->
     [amount |-> 12000,
      recommendation |->
        [best_overall |-> Entry("Amex Blue Cash Preferred", 36,
                                <<"6", "%", " ", "g">>, 95, FallbackLabel),
         runner_up    |-> Entry("Citi Custom Cash", 30,
                                <<"5", "%", " ", "g">>, 0, FallbackLabel),
         alternative  |-> Entry("Chase Freedom Flex", 24,
                                <<"5", "%", " ", "g">>, 0, FallbackLabel)]],
   travel |->
     [amount |-> 200000,
      recommendation |->
        [best_overall |-> Entry("Capital One Venture X", 4000,
                                <<"2", "x", " ", "mile", "g">>, 395, ""),
         runner_up    |-> Entry("Chase Sapphire Reserve", 6000,
                                <<"3", "x", " ", "point", "g">>, 550, ""),
         alternative  |-> Entry("Wells Fargo Autograph", 6000,
                                <<"3", "x", " ", "point", "g">>, 0, "")]]]

GenericResponse ==
  [amount |-> 10000,
   recommendation |->
     [best_overall |-> Entry("Citi Double Cash", 200,
                             <<"2", "%", " ", "g">>, 0, ""),
      runner_up    |-> Entry("Chase Freedom Unlimited", 150,
                             <<"1", ".", "5", "%", " ", "g">>, 0, ""),
      alternative  |-> Entry("Capital One Quicksilver", 150,
                             <<"1", ".", "5", "%", " ", "g">>, 0, "")]]

\* the key of FALLBACK_RESPONSES the query selects, "generic" for none
FallbackCategory(query) ==
  LET query_lower == lower(query)
  IN  IF AnyIn({"coffee", "starbucks", "restaurant", "dining", "lunch", "dinner"},
               query_lower) THEN "dining"
      ELSE IF AnyIn({"grocery", "whole foods", "walmart", "target", "kroger"},
                    query_lower) THEN "grocery"
      ELSE IF AnyIn({"flight", "hotel", "travel", "trip", "vacation"},
                    query_lower) THEN "travel"
      ELSE "generic"

\* lines 235-241: the amount of the query replaces the template's amount
WithQueryAmount(response, query) ==
  LET amount_match == AmountSearch(query)
      amount       == IF amount_match = 0 THEN Raise
                      ELSE AmountFloat(query, amount_match)
  IN  IF amount.kind = "ok" THEN [response EXCEPT !.amount = amount.value]
      ELSE response

\* lines 247-251: every entry's reward_amount recomputed from its reward_rate
Recalculated(rec, amount) ==
  [k \in DOMAIN rec |->
     [rec[k] EXCEPT !.reward_amount = compute_reward_amount(rec[k].reward_rate, amount)]]

\* the key of the sort in get_fallback_recommendation (lines 257-258)
FallbackSortKey(e) == DailyNet(e)

\* lines 253-266: the three entries sorted by net value and reassigned
AsSlots(entries) ==
  [best_overall |-> entries[1].item,
   runner_up    |-> entries[2].item,
   alternative  |-> entries[3].item]

Keyed(rec) ==
  [i \in 1..3 |-> [key |-> FallbackSortKey(rec[Slots[i]]), item |-> rec[Slots[i]]]]

SortedSlots(rec) == Bind(SortDesc(Keyed(rec)), AsSlots)

Reassigned(rec) == Bind(rec, SortedSlots)

\* lines 244-266
Recomputed(response) ==
  IF response.amount > 0
  THEN [response EXCEPT
          !.recommendation = Reassigned(Recalculated(response.recommendation,
                                                     response.amount))]
  ELSE response

\* The response of get_fallback_recommendation(query) against the table tbl.
\* dict.copy() is shallow: for a keyed category the nested dicts written to
\* are the table's own.
get_fallback_recommendation(tbl, query) ==
  LET category == FallbackCategory(query)
      template == IF category = "generic" THEN GenericResponse ELSE tbl[category]
  IN  [category |-> category,
       response |-> Bind(WithQueryAmount(template, query), Recomputed)]

(***************************************************************************)
(* claude_service.py: ClaudeService._fallback_recommendation               *)
(* A transaction is [category, amount, original_query].                    *)
(***************************************************************************)
\* lines 458-511; the reward_amount written here is recomputed at line 538
Recommendations(category) ==
  IF category = "dining"
  THEN [best_overall |-> Entry("Capital One Savor", 0, <<"4", "%", " ", "g">>, 95, ""),
        runner_up    |-> Entry("Chase Sapphire Preferred", 0,
                               <<"3", "x", " ", "point", "g">>, 95, "")]
  ELSE IF category = "grocery"
  THEN [best_overall |-> Entry("Amex Blue Cash Preferred", 0,
                               <<"6", "%", " ", "g">>, 95, ""),
        runner_up    |-> Entry("Amex Gold Card", 0,
                               <<"4", "x", " ", "point", "g">>, 250, "")]
  ELSE [best_overall |-> Entry("Citi Double Cash", 0, <<"2", "%", " ", "g">>, 0, ""),
        runner_up    |-> Entry("Chase Freedom Unlimited", 0,
                               <<"1", ".", "5", "%", " ", "g">>, 0, "")]

\* lines 535-538
RecalculatedCs(rec, amount) ==
  [k \in DOMAIN rec |->
     [rec[k] EXCEPT !.reward_amount = compute_reward_amount_cs(rec[k].reward_rate, amount)]]

\* line 546: the test that exchanges best_overall and runner_up
FallbackSwap(best, runner) ==
  DailyNet(runner) > DailyNet(best) /\ runner.reward_amount > 0

\* lines 541-551
Reordered(rec) ==
  LET best   == rec.best_overall
      runner == rec.runner_up
  IN  IF FallbackSwap(best, runner)
      THEN [best_overall |-> [runner EXCEPT !.ai_reasoning = "orig | Higher net value for this purchase"],
            runner_up    |-> best]
      ELSE rec

_fallback_recommendation(transaction) ==
  Reordered(RecalculatedCs(Recommendations(transaction.category), transaction.amount))

(***************************************************************************)
(* claude_service.py: ClaudeService.analyze_and_recommend                  *)
(* reply is what the model call produced: [kind, result], kind one of      *)
(* "no_client", "timeout", "error", "not_json", "json"; result holds the   *)
(* parsed JSON object: [has, best_overall, runner_up, alternative], has    *)
(* being the set of keys present.                                          *)
(***************************************************************************)
\* result.get(key, {})
Get(result, key) == IF key \in result.has THEN result[key] ELSE NoEntry

\* line 290: the test that exchanges best_overall and runner_up
ConsistencySwap(best, runner, frequency) ==
  AnnualNet(runner, frequency) > AnnualNet(best, frequency) /\ runner.reward_amount > 0

\* lines 266-294 on a parsed result; Raise when the exchange hits a missing key
ConsistencyPass(result, transaction) ==
  LET best      == Get(result, "best_overall")
      runner    == Get(result, "runner_up")
      frequency == Frequency(lower(transaction.original_query))
  IN  IF ConsistencySwap(best, runner, frequency)
      THEN IF {"best_overall", "runner_up"} \subseteq result.has
           THEN Ok([result EXCEPT
                      !.best_overall = [runner EXCEPT !.ai_reasoning = "Higher net value"],
                      !.runner_up    = [best EXCEPT !.ai_reasoning = "Lower net value despite good rewards"]])
           ELSE Raise   \* KeyError on result["best_overall"]
      ELSE Ok(result)

\* a two-entry recommendation in the shape of a parsed result
AsResult(rec) ==
  [has |-> {"best_overall", "runner_up"}, best_overall |-> rec.best_overall,
   runner_up |-> rec.runner_up, alternative |-> NoEntry]

analyze_and_recommend(transaction, reply) ==
  IF reply.kind # "json"
  THEN [path |-> "fallback", result |-> AsResult(_fallback_recommendation(transaction))]
  ELSE LET passed == ConsistencyPass(reply.result, transaction)
       IN  IF passed.kind = "raise"
           THEN [path |-> "fallback",
                 result |-> AsResult(_fallback_recommendation(transaction))]
           ELSE [path |-> "model", result |-> passed.value]

(***************************************************************************)
(* card_optimizer.py: CardOptimizer.calculate_reward                       *)
(* card.reward_structure is [kind, categories, default_rate, reward_type,  *)
(* point_value]: kind "mapping" for a JSON object, "invalid" for text that *)
(* json.loads rejects, "not_mapping" for JSON that is no object, "missing" *)
(* for a card whose reward_structure is None.                              *)
(* categories maps a category name to its rate; rates are in tenths of a   *)
(* percent, point values in thousandths of a dollar, -1 for an absent key. *)
(***************************************************************************)
Absent == -1

\* reward_structure.get("categories", {}).get(category)
CategoryLookup(reward_structure, category) ==
  IF category \in DOMAIN reward_structure.categories
  THEN reward_structure.categories[category]
  ELSE Absent

\* lines 27-33: `if category_rate:` is false for None and for 0
RateFor(reward_structure, category) ==
  LET category_rate == CategoryLookup(reward_structure, category)
  IN  IF category_rate # Absent /\ category_rate # 0 THEN category_rate
      ELSE IF reward_structure.default_rate = Absent THEN 10
      ELSE reward_structure.default_rate

\* calculate_reward with the point_value conversion applied whatever the
\* reward_type is (the test of line 39 dropped)
calculate_reward_any_type(card, transaction) ==
  IF card.reward_structure.kind # "mapping" THEN 0
  ELSE LET rs    == card.reward_structure
           rate  == RateFor(rs, transaction.category)
           raw   == FracMul(Frac(transaction.amount, 1000), rate, 1)
           point_value == IF rs.point_value = Absent THEN 10 ELSE rs.point_value
       IN  Round2(FracMul(raw, point_value, 1000))

\* calculate_reward with a malformed reward_structure read as an empty mapping
\* (the except branch of lines 45-47 dropped)
calculate_reward_unguarded(card, transaction) ==
  LET rs    == card.reward_structure
      rate  == IF rs.kind = "mapping" THEN RateFor(rs, transaction.category) ELSE 10
      raw   == FracMul(Frac(transaction.amount, 1000), rate, 1)
      point_value == IF rs.point_value = Absent THEN 10 ELSE rs.point_value
  IN  IF rs.reward_type = "points"
      THEN Round2(FracMul(raw, point_value, 1000))
      ELSE Round2(raw)

\* lines 21-47, in cents
calculate_reward(card, transaction) ==
  IF card.reward_structure.kind # "mapping" THEN 0
  ELSE LET rs    == card.reward_structure
           rate  == RateFor(rs, transaction.category)
           raw   == FracMul(Frac(transaction.amount, 1000), rate, 1)
           point_value == IF rs.point_value = Absent THEN 10 ELSE rs.point_value
       IN  IF rs.reward_type = "points"
           THEN Round2(FracMul(raw, point_value, 1000))
           ELSE Round2(raw)

(***************************************************************************)
(* card_optimizer.py: CardOptimizer.calculate_financial_impact             *)
(* recommendation is [kind, best_overall]: kind "none" for None, "empty"   *)
(* for {}, "dict" for any other dict.  best_overall is [kind, reward,      *)
(* reward_amount, annual_fee]: kind "absent" (no such key), "null" or      *)
(* "dict"; reward says what the dict holds under "reward_amount":          *)
(* "absent", "null", "text" or "number" (then reward_amount, in cents).    *)
(* The result is [opportunity_cost, annual_projection], each the sentence  *)
(* returned: its kind (the fixed wording) and the figures put into it.     *)
(***************************************************************************)
BestCard(kind, reward, reward_amount, annual_fee) ==
  [kind |-> kind, reward |-> reward, reward_amount |-> reward_amount,
   annual_fee |-> annual_fee]

NoBestCard == BestCard("absent", "absent", 0, 0)

Sentence(kind, figure, category, frequency_text) ==
  [kind |-> kind, figure |-> figure, category |-> category,
   frequency_text |-> frequency_text]

\* lines 117-121: no recommendation
NoRecommendationImpact ==
  [opportunity_cost  |-> Sentence("Unable to calculate without recommendation", 0, "", ""),
   annual_projection |-> Sentence("Analysis unavailable", 0, "", "")]

\* lines 166-171: the except branch
FailedImpact ==
  [opportunity_cost  |-> Sentence("Calculation unavailable", 0, "", ""),
   annual_projection |-> Sentence("Analysis unavailable", 0, "", "")]

\* transaction.get('original_query', '')
OriginalQuery(transaction) ==
  IF transaction.original_query = Missing THEN <<>> ELSE transaction.original_query

\* lines 130-141: frequency_text
FrequencyText(frequency_multiplier) ==
  CASE frequency_multiplier = 52  -> " (weekly purchases)"
    [] frequency_multiplier = 12  -> " (monthly purchases)"
    [] frequency_multiplier = 365 -> " (daily purchases)"
    [] OTHER -> ""

\* n / d to the nearest integer, an exact half going to the even one (d > 0)
RoundDiv(n, d) ==
  LET q == n \div d
      r == n % d
  IN  IF 2 * r < d THEN q
      ELSE IF 2 * r > d THEN q + 1
      ELSE IF q % 2 = 0 THEN q ELSE q + 1

\* the baseline of line 144 taken as a 1% card
OpportunityCostOnePercent(reward_amount, amount) ==
  LET diff == 100 * reward_amount - amount
  IN  RoundDiv(IF diff > 0 THEN diff ELSE 0, 100)

\* lines 144-145 and the :.2f of line 162, in cents:
\* max(0, reward_amount - amount * 0.02)
OpportunityCost(reward_amount, amount) ==
  LET diff == 50 * reward_amount - amount
  IN  RoundDiv(IF diff > 0 THEN diff ELSE 0, 50)

\* lines 147-158, in cents
AnnualRewards(reward_amount, amount, frequency_multiplier) ==
  IF frequency_multiplier > 1 THEN reward_amount * frequency_multiplier
  ELSE IF amount > 0 THEN 48 * reward_amount   \* (amount * 4 * 12) * (reward / amount)
  ELSE 0

\* lines 157-159 and the :.0f of line 163, in dollars
NetAnnualBenefit(reward_amount, amount, frequency_multiplier, annual_fee) ==
  RoundDiv(AnnualRewards(reward_amount, amount, frequency_multiplier)
             - 100 * annual_fee, 100)

calculate_financial_impact(transaction, recommendation) ==
  IF recommendation.kind \in {"none", "empty"} THEN NoRecommendationImpact
  ELSE LET best_card == recommendation.best_overall
       IN  IF \/ best_card.kind = "null"                      \* None.get
              \/ transaction.original_query = None           \* None.lower()
              \/ (best_card.kind = "dict" /\ best_card.reward \in {"null", "text"})
           THEN FailedImpact
           ELSE LET reward_amount == IF best_card.kind = "dict" /\ best_card.reward = "number"
                                     THEN best_card.reward_amount ELSE 0
                    annual_fee    == IF best_card.kind = "dict" THEN best_card.annual_fee ELSE 0
                    amount        == transaction.amount
                    frequency_multiplier == Frequency(lower(OriginalQuery(transaction)))
                IN  [opportunity_cost |->
                       Sentence("$ more than basic 2% card",
                                OpportunityCost(reward_amount, amount), "", ""),
                     annual_projection |->
                       Sentence("Could earn $/year in category",
                                NetAnnualBenefit(reward_amount, amount,
                                                 frequency_multiplier, annual_fee),
                                transaction.category,
                                FrequencyText(frequency_multiplier))]

(***************************************************************************)
(* claude_service.py: ClaudeService._fallback_parse and parse_transaction  *)
(* A parsed transaction is [merchant, amount, category, original_query];   *)
(* original_query is Missing when the dict has no such key.  reply is what *)
(* the model call produced: [kind, result], kind as in                     *)
(* analyze_and_recommend, result the object parsed from its text.          *)
(***************************************************************************)
\* lines 354-365
ParseCategory(input_lower) ==
  IF AnyIn({"starbucks", "coffee", "cafe", "restaurant", "dining"}, input_lower)
  THEN "dining"
  ELSE IF AnyIn({"grocery", "whole foods", "walmart", "target"}, input_lower)
  THEN "grocery"
  ELSE IF AnyIn({"gas", "shell", "exxon", "chevron"}, input_lower) THEN "gas"
  ELSE IF AnyIn({"flight", "hotel", "travel", "trip", "airline"}, input_lower)
  THEN "travel"
  ELSE "other"

\* lines 356-357 and 360-361
ParseMerchant(input_lower) ==
  IF ParseCategory(input_lower) = "dining" /\ AnyIn({"starbucks"}, input_lower)
  THEN "Starbucks"
  ELSE IF ParseCategory(input_lower) = "grocery" /\ AnyIn({"whole foods"}, input_lower)
  THEN "Whole Foods"
  ELSE "Unknown"

\* Raise: the float() of line 349 is in no try block
_fallback_parse(user_input) ==
  LET amount_match == AmountSearch(user_input)
      amount       == IF amount_match = 0 THEN Ok(0)
                      ELSE AmountFloat(user_input, amount_match)
      input_lower  == lower(user_input)
  IN  IF amount.kind = "raise" THEN Raise
      ELSE Ok([merchant |-> ParseMerchant(input_lower), amount |-> amount.value,
               category |-> ParseCategory(input_lower), original_query |-> Missing])

parse_transaction(query, reply) ==
  IF reply.kind = "json"
  THEN Ok([merchant |-> reply.result.merchant, amount |-> reply.result.amount,
           category |-> reply.result.category, original_query |-> query])
  ELSE _fallback_parse(query)

(***************************************************************************)
(* api/optimization.py: optimize_payment                                   *)
(* The market search of step 2 feeds only the model's prompt and the       *)
(* market_analysis field, which are not part of this response record.      *)
(***************************************************************************)
\* the recommendation of analyze_and_recommend as calculate_financial_impact
\* reads it: never empty (line 320 adds data_source), rewards are numbers
AsImpactInput(result) ==
  [kind |-> "dict",
   best_overall |-> IF "best_overall" \in result.has
                    THEN BestCard("dict", "number", result.best_overall.reward_amount,
                                  result.best_overall.annual_fee)
                    ELSE NoBestCard]

\* the top-level keys of the dict returned at lines 92-97
PipelineKeys == {"transaction", "market_analysis", "recommendation", "financial_impact"}

\* the top-level keys of every template of fallback_responses.py
TemplateKeys ==
  {"parsed_transaction", "market_analysis", "recommendation", "financial_insight"}

\* lines 43-97 with the transaction parsed
Pipeline(parsed_transaction, analyze_reply) ==
  LET recommendation == analyze_and_recommend(parsed_transaction, analyze_reply)
  IN  [path |-> "pipeline",
       keys |-> PipelineKeys,
       transaction |-> parsed_transaction,
       source |-> recommendation.path,
       recommendation |-> recommendation.result,
       financial_impact |->
         calculate_financial_impact(parsed_transaction,
                                    AsImpactInput(recommendation.result))]

\* lines 99-102
GracefulFallback(tbl, query) ==
  LET out == get_fallback_recommendation(tbl, query)
  IN  [path |-> "fallback", keys |-> TemplateKeys, category |-> out.category,
       response |-> out.response]

optimize_payment(tbl, query, parse_reply, analyze_reply) ==
  LET parsed_transaction == parse_transaction(query, parse_reply)
  IN  IF parsed_transaction.kind = "raise" THEN GracefulFallback(tbl, query)
      ELSE Bind(parsed_transaction.value,
                LAMBDA tr : Pipeline(tr, analyze_reply))

(***************************************************************************)
(* Inputs.                                                                 *)
(***************************************************************************)
\* every sequence over S of length at most n
SeqsUpTo(S, n) == UNION {[1..k -> S] : k \in 0..n}

RateAlphabet == {"2", "3", ".", "%", "x", "X", " ", "point", "mile", "g"}

\* rate values handed to the normalizers: strings, and None
RateValues == SeqsUpTo(RateAlphabet, MaxLen) \cup {None}

\* purchase amounts in cents
RateAmounts == {2000, 10000}

Fees == {0, 95}

\* "3%", "4%", "3x points"
RankRates == {<<"3", "%">>, <<"4", "%">>, <<"3", "x", " ", "point", "g">>}

CardNames == <<"A", "B", "C">>

\* candidate lists of two or three cards, named by their position
CardLists ==
  {[i \in 1..n |-> [card_name |-> CardNames[i], category_rate |-> r[i],
                    annual_fee |-> f[i]]] :
     r \in [1..3 -> RankRates], f \in [1..3 -> Fees], n \in 2..3}

\* the amount text and the category word of a query "<amount> <word>"
AmountTexts ==
  {<<>>, <<"$", "0">>, <<"$", "0", ".", "1", "0">>, <<"$", "1", "0", "0">>,
   <<",">>}

QueryWords == {"coffee", "grocery", "trip", "g"}

Queries == {a \o <<" ", w>> : a \in AmountTexts, w \in QueryWords}

OriginalQueries ==
  {<<"g">>, <<"weekly">>, <<"every month">>, <<"daily">>, <<"daily", " ", "weekly">>}

Transactions ==
  [category : {"dining", "grocery", "other"}, amount : {0, 10, 2000, 10000},
   original_query : OriginalQueries]

UpstreamRewards == {0, 100, 500}

\* an entry of the model's reply in slot k
UpstreamEntries(k) ==
  {Entry(k, r, <<>>, f, "") : r \in UpstreamRewards, f \in Fees}

JsonResults ==
  {[has |-> h, best_overall |-> b, runner_up |-> r, alternative |-> a] :
     h \in {{"best_overall", "runner_up", "alternative"}, {"best_overall", "runner_up"},
            {"runner_up", "alternative"}, {"best_overall"}},
     b \in UpstreamEntries("best_overall"), r \in UpstreamEntries("runner_up"),
     a \in UpstreamEntries("alternative")}

NoResult == [has |-> {}, best_overall |-> NoEntry, runner_up |-> NoEntry,
             alternative |-> NoEntry]

Replies ==
  {[kind |-> k, result |-> NoResult] : k \in {"no_client", "timeout", "error", "not_json"}}
    \cup {[kind |-> "json", result |-> r] : r \in JsonResults}

RewardStructures ==
  {[kind |-> "mapping", categories |-> c, default_rate |-> d, reward_type |-> ty,
    point_value |-> pv] :
     c \in {<<>>} \cup {[k \in {"dining"} |-> r] : r \in {0, 30, 40}},
     d \in {Absent, 10, 20}, ty \in {"cashback", "points"}, pv \in {Absent, 20}}
    \cup {[kind |-> k, categories |-> <<>>, default_rate |-> Absent,
           reward_type |-> "cashback", point_value |-> Absent] :
            k \in {"missing", "invalid", "not_mapping"}}

RewardTransactions ==
  [category : {"dining", "Dining", "other"}, amount : {0, 2000, 10000}]

NoCall == [kind |-> "none", value |-> 0]

(***************************************************************************)
(* The fallback service: calls of get_fallback_recommendation against the  *)
(* module-level table.                                                     *)
(***************************************************************************)
Init ==
  /\ op = "start"
  /\ arg = [query |-> <<>>, before |-> GenericResponse.recommendation]
  /\ ret = [category |-> "generic", response |-> GenericResponse]
  /\ table = FALLBACK_RESPONSES

GetFallbackRecommendation(query) ==
  \E out \in {get_fallback_recommendation(table, query)} :
    LET template == IF out.category = "generic" THEN GenericResponse
                    ELSE table[out.category]
    IN  /\ op' = "get_fallback_recommendation"
        /\ arg' = [query |-> query, before |-> template.recommendation]
        /\ ret' = out
        /\ table' = IF out.category = "generic" THEN table
                    ELSE [table EXCEPT ![out.category] = out.response]

Next == \E query \in Queries : GetFallbackRecommendation(query)

Spec == Init /\ [][Next]_vars

(***************************************************************************)
(* The rate-string normalizers, each applied to one rate value.            *)
(***************************************************************************)
InitRate ==
  /\ op = "start"
  /\ \E r \in RateValues, a \in RateAmounts : arg = [rate_str |-> r, amount |-> a]
  /\ ret = NoCall
  /\ table = FALLBACK_RESPONSES

ComputeRewardAmount ==
  /\ op = "start"
  /\ op' = "compute_reward_amount"
  /\ ret' = Ok(compute_reward_amount(arg.rate_str, arg.amount))
  /\ UNCHANGED <<arg, table>>

ComputeRewardAmountCs ==
  /\ op = "start"
  /\ op' = "compute_reward_amount_cs"
  /\ ret' = Ok(compute_reward_amount_cs(arg.rate_str, arg.amount))
  /\ UNCHANGED <<arg, table>>

\* compare_cards on the one card {"category_rate": rate_str}: its reward_amount
CompareCardsRate ==
  /\ op = "start"
  /\ op' = "compare_cards.reward_amount"
  /\ LET out == compare_cards(<<[card_name |-> "A", category_rate |-> arg.rate_str,
                                 annual_fee |-> 0]>>, [amount |-> arg.amount])
     IN  ret' = IF out.kind = "ok" THEN Ok(out.value[1].reward_amount) ELSE Raise
  /\ UNCHANGED <<arg, table>>

NextRate == ComputeRewardAmount \/ ComputeRewardAmountCs \/ CompareCardsRate

SpecRate == InitRate /\ [][NextRate]_vars

(***************************************************************************)
(* The ranker: compare_cards on a list of candidates.                      *)
(***************************************************************************)
InitRank ==
  /\ op = "start"
  /\ \E c \in CardLists, a \in RateAmounts : arg = [cards |-> c, amount |-> a]
  /\ ret = NoCall
  /\ table = FALLBACK_RESPONSES

CompareCards ==
  /\ op = "start"
  /\ op' = "compare_cards"
  /\ ret' = compare_cards(arg.cards, [amount |-> arg.amount])
  /\ UNCHANGED <<arg, table>>

NextRank == CompareCards

SpecRank == InitRank /\ [][NextRank]_vars

(***************************************************************************)
(* ClaudeService: analyze_and_recommend and _fallback_recommendation.      *)
(***************************************************************************)
InitClaude ==
  /\ op = "start"
  /\ \E tr \in Transactions, rp \in Replies : arg = [transaction |-> tr, reply |-> rp]
  /\ ret = [path |-> "none", result |-> NoResult]
  /\ table = FALLBACK_RESPONSES

AnalyzeAndRecommend ==
  /\ op = "start"
  /\ op' = "analyze_and_recommend"
  /\ ret' = analyze_and_recommend(arg.transaction, arg.reply)
  /\ UNCHANGED <<arg, table>>

FallbackRecommendation ==
  /\ op = "start"
  /\ arg.reply.kind = "no_client"
  /\ op' = "_fallback_recommendation"
  /\ ret' = [path |-> "fallback",
             result |-> AsResult(_fallback_recommendation(arg.transaction))]
  /\ UNCHANGED <<arg, table>>

NextClaude == AnalyzeAndRecommend \/ FallbackRecommendation

SpecClaude == InitClaude /\ [][NextClaude]_vars

(***************************************************************************)
(* The reward calculator.                                                  *)
(***************************************************************************)
InitReward ==
  /\ op = "start"
  /\ \E rs \in RewardStructures, tr \in RewardTransactions :
       arg = [card |-> [reward_structure |-> rs], transaction |-> tr]
  /\ ret = NoCall
  /\ table = FALLBACK_RESPONSES

CalculateReward ==
  /\ op = "start"
  /\ op' = "calculate_reward"
  /\ ret' = Ok(calculate_reward(arg.card, arg.transaction))
  /\ UNCHANGED <<arg, table>>

NextReward == CalculateReward

SpecReward == InitReward /\ [][NextReward]_vars

(***************************************************************************)
(* The financial summary: calculate_financial_impact on one transaction    *)
(* and one recommendation.                                                 *)
(***************************************************************************)
ImpactQueries ==
  {Missing, None, <<"g">>, <<"Weekly">>, <<"every week">>, <<"Every Month">>,
   <<"daily">>, <<"DAILY", " ", "weekly">>, <<"monthly", " ", "every day">>}

ImpactTransactions ==
  [amount : {0, 10, 550, 2000}, category : {"dining"}, original_query : ImpactQueries]

ImpactRecommendations ==
  {[kind |-> k, best_overall |-> NoBestCard] : k \in {"none", "empty", "dict"}}
    \cup {[kind |-> "dict", best_overall |-> BestCard("null", "absent", 0, 0)]}
    \cup {[kind |-> "dict", best_overall |-> BestCard("dict", r, 0, f)] :
             r \in {"absent", "null", "text"}, f \in Fees}
    \cup {[kind |-> "dict", best_overall |-> BestCard("dict", "number", r, f)] :
             r \in {0, 22, 100, 500}, f \in Fees}

InitImpact ==
  /\ op = "start"
  /\ \E tr \in ImpactTransactions, rec \in ImpactRecommendations :
       arg = [transaction |-> tr, recommendation |-> rec]
  /\ ret = NoRecommendationImpact
  /\ table = FALLBACK_RESPONSES

CalculateFinancialImpact ==
  /\ op = "start"
  /\ op' = "calculate_financial_impact"
  /\ ret' = calculate_financial_impact(arg.transaction, arg.recommendation)
  /\ UNCHANGED <<arg, table>>

NextImpact == CalculateFinancialImpact

SpecImpact == InitImpact /\ [][NextImpact]_vars

(***************************************************************************)
(* The endpoint: one request handled by optimize_payment, and its first    *)
(* step parse_transaction on its own.                                      *)
(***************************************************************************)
CoffeeQuery ==
  <<"buying", " ", "$", "5", ".", "5", "0", " ", "coffee", " ", "at", " ", "Starbucks">>

RequestQueries ==
  {CoffeeQuery,
   <<"$", "2", "0", " ", "coffee", " ", "Weekly">>,
   <<"$", "2", "0", " ", "grocery", " ", "DAILY", " ", "weekly">>,
   <<"$", "2", "0", " ", "trip">>,
   <<"coffee", " ", "Every Month">>,
   <<"coffee", ",", " ", "g">>}

\* what the model extracted from the query
ParsedObjects ==
  [merchant : {"Unknown"}, amount : {0, 2000}, category : {"dining", "other"}]

NoParsedObject == [merchant |-> "", amount |-> 0, category |-> ""]

FailedReplies == {"timeout", "error", "not_json"}

ParseReplies ==
  {[kind |-> k, result |-> NoParsedObject] : k \in FailedReplies}
    \cup {[kind |-> "json", result |-> r] : r \in ParsedObjects}

AnalyzeReplies ==
  {[kind |-> k, result |-> NoResult] : k \in FailedReplies}
    \cup {[kind |-> "json",
           result |-> [has |-> h, best_overall |-> b, runner_up |-> r,
                       alternative |-> Entry("alternative", 100, <<>>, 0, "")]] :
            h \in {{"best_overall", "runner_up", "alternative"}, {"runner_up"}},
            b \in UpstreamEntries("best_overall"), r \in UpstreamEntries("runner_up")}

\* without credentials neither call reaches the model
Environments ==
  {[parse_reply   |-> [kind |-> "no_client", result |-> NoParsedObject],
    analyze_reply |-> [kind |-> "no_client", result |-> NoResult]]}
    \cup [parse_reply : ParseReplies, analyze_reply : AnalyzeReplies]

InitOptimize ==
  /\ op = "start"
  /\ \E q \in RequestQueries, env \in Environments :
       arg = [query |-> q, parse_reply |-> env.parse_reply,
              analyze_reply |-> env.analyze_reply]
  /\ ret = NoCall
  /\ table = FALLBACK_RESPONSES

ParseTransaction ==
  /\ op = "start"
  /\ op' = "parse_transaction"
  /\ ret' = parse_transaction(arg.query, arg.parse_reply)
  /\ UNCHANGED <<arg, table>>

OptimizePayment ==
  /\ op = "start"
  /\ \E out \in {optimize_payment(table, arg.query, arg.parse_reply, arg.analyze_reply)} :
       /\ op' = "optimize_payment"
       /\ ret' = out
       /\ table' = IF out.path = "fallback" /\ out.category # "generic"
                   THEN [table EXCEPT ![out.category] = out.response]
                   ELSE table
  /\ UNCHANGED arg

NextOptimize == ParseTransaction \/ OptimizePayment

SpecOptimize == InitOptimize /\ [][NextOptimize]_vars

(***************************************************************************)
(* ClaudeService: the model invocation of analyze_and_recommend and of     *)
(* extract_discovered_cards, step by step.  arg is the call and its        *)
(* environment: the method, whether there is a client, what the           *)
(* transaction's "amount" holds ("number", "absent" for no such key,       *)
(* "text" or "null" as an unvalidated parse reply can leave it), and what  *)
(* the one model call produces.  ret counts the calls made and holds the   *)
(* outcome; op is the position inside the method.                          *)
(***************************************************************************)
Methods == {"analyze_and_recommend", "extract_discovered_cards"}

AmountKinds == {"number", "absent", "text", "null"}

\* what the awaited call produces: a timeout of wait_for, an API error, text
\* that is no JSON, JSON that the method cannot process, JSON it can
CallOutcomes == {"timeout", "error", "not_json", "unprocessable", "json"}

\* amount * 0.04 and the like are defined for a number only (the default of
\* .get() stands in for an absent key)
Multipliable(amount_kind) == amount_kind \in {"number", "absent"}

\* _fallback_recommendation builds its dict at lines 458-511 outside any try;
\* _fallback_cards is a lookup
LocalFallback(method, amount_kind) ==
  IF method = "analyze_and_recommend" /\ ~Multipliable(amount_kind)
  THEN [kind |-> "raise", value |-> "TypeError"]
  ELSE [kind |-> "ok", value |-> "fallback"]

\* the prompt of analyze_and_recommend formats amount * 0.05 (line 149),
\* before the try block of line 208
PromptBuilt(method, amount_kind) ==
  method = "extract_discovered_cards" \/ Multipliable(amount_kind)

InitInvoke ==
  /\ op = "start"
  /\ \E m \in Methods, c \in BOOLEAN, k \in AmountKinds, o \in CallOutcomes :
       arg = [method |-> m, client |-> c, amount_kind |-> k, outcome |-> o]
  /\ ret = [calls |-> 0, kind |-> "none", value |-> "none"]
  /\ table = FALLBACK_RESPONSES

\* the method leaves with out
Leave(out) ==
  /\ op' = IF out.kind = "raise" THEN "raised" ELSE "returned"
  /\ ret' = [ret EXCEPT !.kind = out.kind, !.value = out.value]

\* lines 126-127 and 74-75
NoClient ==
  /\ op = "start"
  /\ ~arg.client
  /\ Leave(LocalFallback(arg.method, arg.amount_kind))
  /\ UNCHANGED <<arg, table>>

\* lines 129-206 and 77-103
BuildPrompt ==
  /\ op = "start"
  /\ arg.client
  /\ IF PromptBuilt(arg.method, arg.amount_kind)
     THEN op' = "prompt" /\ ret' = ret
     ELSE Leave([kind |-> "raise", value |-> "TypeError"])
  /\ UNCHANGED <<arg, table>>

\* lines 209-214 and 105-110: the call is made, inside asyncio.wait_for
InvokeModel ==
  /\ op = "prompt"
  /\ op' = "awaiting"
  /\ ret' = [ret EXCEPT !.calls = @ + 1]
  /\ UNCHANGED <<arg, table>>

\* lines 216-325 and 112-114
ReplyProcessed ==
  /\ op = "awaiting"
  /\ arg.outcome = "json"
  /\ Leave([kind |-> "ok", value |-> "model"])
  /\ UNCHANGED <<arg, table>>

\* the except handlers of lines 327-336 and 116-121
CallFailed ==
  /\ op = "awaiting"
  /\ arg.outcome # "json"
  /\ Leave(LocalFallback(arg.method, arg.amount_kind))
  /\ UNCHANGED <<arg, table>>

NextInvoke == NoClient \/ BuildPrompt \/ InvokeModel \/ ReplyProcessed \/ CallFailed

SpecInvoke == InitInvoke /\ [][NextInvoke]_vars

(***************************************************************************)
(* brave_search_service.py: BraveSearchService.discover_market_options     *)
(* A search result is [url, credibility]; the url is a sequence of pieces  *)
(* (substring tests are tests on the pieces), credibility is "" for a      *)
(* result that has no such key.  A task of asyncio.gather ends with        *)
(* [kind, results]: "returned" with the list search() returned, or         *)
(* "raised" when an exception left the task; "pending" before that.        *)
(***************************************************************************)
Result(url, credibility) == [url |-> url, credibility |-> credibility]

credible_domains ==
  {"nerdwallet.com", "creditcards.com", "thepointsguy.com", "bankrate.com",
   "chase.com", "americanexpress.com", "capitalone.com", "citi.com",
   "discover.com", "creditkarma.com", "wallethub.com", "usnews.com"}

\* the credibility lines 156-162 give a result, "" for one that is dropped
Credibility(result) ==
  LET url == lower(result.url)
  IN  IF AnyIn(credible_domains, url) THEN "high"
      ELSE IF AnyIn({"bank", "credit", "finance"}, url) THEN "medium"
      ELSE ""

RECURSIVE _filter_high_only(_)
_filter_high_only(results) ==
  IF results = <<>> THEN <<>>
  ELSE LET result == Head(results)
           rest   == _filter_high_only(Tail(results))
       IN  IF Credibility(result) = "high"
           THEN <<[result EXCEPT !.credibility = "high"]>> \o rest
           ELSE rest

RECURSIVE _filter_credible_sources(_)
_filter_credible_sources(results) ==
  IF results = <<>> THEN <<>>
  ELSE LET result == Head(results)
           rest   == _filter_credible_sources(Tail(results))
       IN  IF Credibility(result) # ""
           THEN <<[result EXCEPT !.credibility = Credibility(result)]>> \o rest
           ELSE rest

\* lines 171-230; every discovery query holds the category it was built from
_fallback_search_results(category) ==
  IF category = "dining"
  THEN <<Result(<<"https://www.", "nerdwallet.com", "/best/credit-cards/", "dining">>, "high"),
         Result(<<"https://", "thepointsguy.com", "/guide/best-", "dining", "-credit-cards/">>, "high")>>
  ELSE IF category = "grocery"
  THEN <<Result(<<"https://www.", "creditcards.com", "/best/", "grocery", "-rewards/">>, "high"),
         Result(<<"https://www.", "bankrate.com", "/credit-cards/rewards/best-", "grocery", "/">>, "high")>>
  ELSE IF category = "travel"
  THEN <<Result(<<"https://www.", "nerdwallet.com", "/best/credit-cards/", "travel">>, "high"),
         Result(<<"https://", "thepointsguy.com", "/guide/best-", "travel", "-credit-cards/">>, "high")>>
  ELSE <<Result(<<"https://www.", "nerdwallet.com", "/best/credit-cards/", "cash-back">>, "high")>>

\* search(query) for a query of the given category; outcome is what the
\* request met: [kind, results], kind "ok" (status 200 with the results of
\* the body), "status" (another status), "exception" (a timeout or any error
\* inside the try block), "raised" (an exception that left the coroutine)
search(api_key, category, outcome) ==
  IF outcome.kind = "raised" THEN [kind |-> "raised", results |-> <<>>]
  ELSE IF ~api_key THEN [kind |-> "returned", results |-> _fallback_search_results(category)]
  ELSE IF outcome.kind = "ok" THEN [kind |-> "returned", results |-> outcome.results]
  ELSE [kind |-> "returned", results |-> _fallback_search_results(category)]

discovery_queries == <<"best", "highest", "offers">>

Pending == [kind |-> "pending", results |-> <<>>]

\* lines 90-97: the results of the tasks merged in the order of the queries
RECURSIVE Merged(_, _)
Merged(results_list, i) ==
  IF i > Len(results_list) THEN [results |-> <<>>, queries_used |-> <<>>]
  ELSE LET rest == Merged(results_list, i + 1)
           res  == results_list[i]
       IN  IF res.kind = "raised" THEN rest
           ELSE [results |-> _filter_credible_sources(res.results) \o rest.results,
                 queries_used |-> <<discovery_queries[i]>> \o rest.queries_used]

\* lines 99-103
MarketAnalysis(results_list) ==
  LET merged == Merged(results_list, 1)
  IN  [results |-> merged.results, queries_used |-> merged.queries_used,
       total_sources |-> Len(merged.results)]

\* result lists a status-200 body can hold
ApiResults ==
  {<<>>,
   <<Result(<<"https://", "NerdWallet.com", "/cards">>, "")>>,
   <<Result(<<"https://", "blog", ".example">>, "")>>,
   <<Result(<<"https://", "blog", ".example">>, ""),
     Result(<<"https://my", "bank", ".example">>, "")>>,
   <<Result(<<"https://www.", "chase.com", "/", "credit">>, ""),
     Result(<<"https://", "news", ".example">>, "")>>}

SearchOutcomes ==
  {[kind |-> "ok", results |-> r] : r \in ApiResults}
    \cup {[kind |-> k, results |-> <<>>] : k \in {"status", "exception", "raised"}}

SearchCategories == {"dining", "other"}

NoMarketAnalysis == [results |-> <<>>, queries_used |-> <<>>, total_sources |-> 0]

InitSearch ==
  /\ op = "start"
  /\ \E c \in SearchCategories, k \in BOOLEAN, o \in [1..3 -> SearchOutcomes] :
       arg = [category |-> c, api_key |-> k, outcomes |-> o]
  /\ ret = [tasks |-> [i \in 1..3 |-> Pending], analysis |-> NoMarketAnalysis]
  /\ table = FALLBACK_RESPONSES

\* line 88: the three tasks are created
CreateTasks ==
  /\ op = "start"
  /\ op' = "gather"
  /\ UNCHANGED <<arg, ret, table>>

\* a task runs to its end, in any order with respect to the other two
SearchCompletes(i) ==
  /\ op = "gather"
  /\ ret.tasks[i] = Pending
  /\ ret' = [ret EXCEPT !.tasks[i] = search(arg.api_key, arg.category, arg.outcomes[i])]
  /\ UNCHANGED <<op, arg, table>>

\* line 89 resumes when every task has ended; lines 90-103
DiscoverMarketOptions ==
  /\ op = "gather"
  /\ \A i \in 1..3 : ret.tasks[i] # Pending
  /\ op' = "discover_market_options"
  /\ ret' = [ret EXCEPT !.analysis = MarketAnalysis(ret.tasks)]
  /\ UNCHANGED <<arg, table>>

NextSearch == CreateTasks \/ (\E i \in 1..3 : SearchCompletes(i)) \/ DiscoverMarketOptions

SpecSearch == InitSearch /\ [][NextSearch]_vars

(***************************************************************************)
(* card_optimizer.py: CardOptimizer.get_best_card_from_portfolio           *)
(* A row of the cards table is [name, annual_fee, is_active,               *)
(* reward_structure]; rows is the table in the order the query returns it. *)
(***************************************************************************)
Mapping(categories, default_rate, reward_type, point_value) ==
  [kind |-> "mapping", categories |-> categories, default_rate |-> default_rate,
   reward_type |-> reward_type, point_value |-> point_value]

CardRow(name, annual_fee, reward_structure) ==
  [name |-> name, annual_fee |-> annual_fee, is_active |-> TRUE,
   reward_structure |-> reward_structure]

\* database.py lines 74-178: the six demo cards (rates in tenths of a percent,
\* point values in thousandths of a dollar)
demo_cards ==
  <<CardRow("Chase Sapphire Preferred", 95,
            Mapping("dining" :> 30 @@ "travel" :> 20 @@ "streaming" :> 30
                      @@ "online_grocery" :> 30, 10, "points", 15)),
    CardRow("American Express Blue Cash Preferred", 95,
            Mapping("grocery" :> 60 @@ "streaming" :> 60 @@ "gas" :> 30
                      @@ "transit" :> 30, 10, "cashback", Absent)),
    CardRow("Citi Double Cash", 0, Mapping(<<>>, 20, "cashback", Absent)),
    CardRow("Capital One Savor", 95,
            Mapping("dining" :> 40 @@ "entertainment" :> 40 @@ "grocery" :> 30
                      @@ "streaming" :> 30, 10, "cashback", Absent)),
    CardRow("Chase Freedom Unlimited", 0,
            Mapping("dining" :> 30 @@ "drugstore" :> 30 @@ "travel_chase" :> 50,
                    15, "cashback", Absent)),
    CardRow("American Express Gold Card", 250,
            Mapping("dining" :> 40 @@ "grocery" :> 40 @@ "flights" :> 30,
                    10, "points", 20))>>

\* line 51: the rows with is_active set, in query order
ActiveCards(rows) == SelectSeq(rows, LAMBDA card : card.is_active)

\* the comparison of line 58 with >= in place of >
BetterOrEqualReward(reward, best_reward) == reward >= best_reward

\* line 58
BetterReward(reward, best_reward) == reward > best_reward

NoPortfolioCard == [found |-> FALSE, card |-> "", reward_amount |-> 0]

\* lines 53-60: the loop from card i on, best being the best so far
RECURSIVE BestFrom(_, _, _, _)
BestFrom(cards, i, transaction, best) ==
  IF i > Len(cards) THEN best
  ELSE LET reward == calculate_reward(cards[i], transaction)
       IN  IF BetterReward(reward, best.reward_amount)
           THEN BestFrom(cards, i + 1, transaction,
                         [found |-> TRUE, card |-> cards[i].name, reward_amount |-> reward])
           ELSE BestFrom(cards, i + 1, transaction, best)

\* found = FALSE stands for the None of line 70
get_best_card_from_portfolio(rows, transaction) ==
  BestFrom(ActiveCards(rows), 1, transaction, NoPortfolioCard)

PortfolioStructures ==
  {Mapping("dining" :> 40, 10, "cashback", Absent),
   Mapping(<<>>, 20, "cashback", Absent),
   Mapping("dining" :> 40, 10, "points", 20)}

\* tables of up to three rows, named by their position
Portfolios ==
  UNION {{[i \in 1..n |-> [name |-> CardNames[i], annual_fee |-> f[i],
                           is_active |-> a[i], reward_structure |-> s[i]]] :
            f \in [1..n -> Fees], a \in [1..n -> BOOLEAN],
            s \in [1..n -> PortfolioStructures]} : n \in 0..3}
    \cup {demo_cards}

PortfolioTransactions == [category : {"dining", "other"}, amount : {0, 550, 2000}]

InitPortfolio ==
  /\ op = "start"
  /\ \E rows \in Portfolios, tr \in PortfolioTransactions :
       arg = [cards |-> rows, transaction |-> tr]
  /\ ret = NoPortfolioCard
  /\ table = FALLBACK_RESPONSES

GetBestCardFromPortfolio ==
  /\ op = "start"
  /\ op' = "get_best_card_from_portfolio"
  /\ ret' = get_best_card_from_portfolio(arg.cards, arg.transaction)
  /\ UNCHANGED <<arg, table>>

NextPortfolio == GetBestCardFromPortfolio

SpecPortfolio == InitPortfolio /\ [][NextPortfolio]_vars

(***************************************************************************)
(* database.py: seed_demo_data, run at every start-up (main.py, lifespan)  *)
(* by the processes that share the database.  ret is the database: the     *)
(* set of primary keys in the cards table (a card is named by its name)    *)
(* and, for each demo transaction, the number of rows holding it (the      *)
(* transactions table has an autoincrement key and no other constraint).   *)
(* arg holds each process's position inside seed_demo_data and the number  *)
(* of runs it has started.                                                 *)
(***************************************************************************)
Processes == {"p1", "p2"}

MaxRuns == 2

\* lines 196-218: the card each demo transaction recommends
demo_transactions ==
  <<[merchant |-> "Starbucks", recommended_card_id |-> "Capital One Savor"],
    [merchant |-> "Whole Foods",
     recommended_card_id |-> "American Express Blue Cash Preferred"],
    [merchant |-> "Shell Gas Station",
     recommended_card_id |-> "American Express Blue Cash Preferred"]>>

At(phase, i) == [phase |-> phase, i |-> i]

\* the position after card i is dealt with
AfterCard(i) == IF i < Len(demo_cards) THEN At("card_get", i + 1) ELSE At("txn_get", 1)

\* the position after transaction i is dealt with
AfterTransaction(i) ==
  IF i < Len(demo_transactions) THEN At("txn_get", i + 1) ELSE At("done", 0)

InitSeed ==
  /\ op = "start"
  /\ arg = [pc |-> [p \in Processes |-> At("idle", 0)],
            runs |-> [p \in Processes |-> 0]]
  /\ ret = [cards |-> {}, transactions |-> [t \in 1..Len(demo_transactions) |-> 0],
            errors |-> 0]
  /\ table = FALLBACK_RESPONSES

\* main.py lines 35-36: a process starts (again) and calls seed_demo_data
Lifespan(p) ==
  /\ arg.pc[p].phase \in {"idle", "done"}
  /\ arg.runs[p] < MaxRuns
  /\ op' = "lifespan"
  /\ arg' = [arg EXCEPT !.pc[p] = At("card_get", 1), !.runs[p] = @ + 1]
  /\ UNCHANGED <<ret, table>>

\* line 184: db.get(Card, cid)
CardGet(p) ==
  /\ arg.pc[p].phase = "card_get"
  /\ LET i == arg.pc[p].i
     IN  arg' = [arg EXCEPT !.pc[p] = IF demo_cards[i].name \in ret.cards
                                      THEN AfterCard(i)
                                      ELSE At("card_commit", i)]
  /\ op' = "db.get(Card)"
  /\ UNCHANGED <<ret, table>>

\* lines 185-190: the insert is committed, or the primary key is taken by now
\* and the IntegrityError is caught and rolled back
CardCommit(p) ==
  /\ arg.pc[p].phase = "card_commit"
  /\ LET i == arg.pc[p].i
     IN  /\ ret' = [ret EXCEPT !.cards = @ \cup {demo_cards[i].name}]
         /\ arg' = [arg EXCEPT !.pc[p] = AfterCard(i)]
  /\ op' = "db.commit(Card)"
  /\ UNCHANGED table

\* lines 223-225
TransactionGet(p) ==
  /\ arg.pc[p].phase = "txn_get"
  /\ LET i == arg.pc[p].i
     IN  arg' = [arg EXCEPT !.pc[p] =
                   IF demo_transactions[i].recommended_card_id \in ret.cards
                   THEN At("txn_commit", i)
                   ELSE AfterTransaction(i)]
  /\ op' = "db.get(Card) for transaction"
  /\ UNCHANGED <<ret, table>>

\* lines 226-229: a new row, whatever rows there are
TransactionCommit(p) ==
  /\ arg.pc[p].phase = "txn_commit"
  /\ LET i == arg.pc[p].i
     IN  /\ ret' = [ret EXCEPT !.transactions[i] = @ + 1]
         /\ arg' = [arg EXCEPT !.pc[p] = AfterTransaction(i)]
  /\ op' = "db.commit(Transaction)"
  /\ UNCHANGED table

NextSeed ==
  \E p \in Processes :
    \/ Lifespan(p)
    \/ CardGet(p)
    \/ CardCommit(p)
    \/ TransactionGet(p)
    \/ TransactionCommit(p)

SpecSeed == InitSeed /\ [][NextSeed]_vars

(***************************************************************************)
(* The claims.                                                             *)
(***************************************************************************)
\* the net value of the specification's ranker: reward - fee/365 for a single
\* purchase, reward * frequency - fee for a recurring one (compared only at
\* one frequency, so the scale of the first by 365 does not matter)
NetValue(e, frequency) ==
  IF frequency = 1 THEN DailyNet(e) ELSE AnnualNet(e, frequency)

\* C1: compare_cards returns the candidates in descending net-value order: no
\* candidate is placed behind one whose computed net value is smaller.
C1_DescendingNetValue ==
  (op = "compare_cards" /\ ret.kind = "ok") =>
    \A i, j \in DOMAIN ret.value :
      i < j => ret.value[i].net_value >= ret.value[j].net_value

\* C2: every returned recommendation has net_value(best_overall) >=
\* net_value(runner_up); here the ones get_fallback_recommendation returns,
\* by the net value it computes itself (reward - fee/365).
C2_BestAtLeastRunnerUp ==
  op = "get_fallback_recommendation" =>
    DailyNet(ret.response.recommendation.best_overall)
      >= DailyNet(ret.response.recommendation.runner_up)

\* C3: a returned recommendation that has an alternative has its three tiers
\* in descending net-value order; here the post-processed output of
\* analyze_and_recommend.
C3_ThreeTiersDescending ==
  (op = "analyze_and_recommend" /\ ret.path = "model"
     /\ ret.result.has = {"best_overall", "runner_up", "alternative"}) =>
    LET f == Frequency(lower(arg.transaction.original_query))
    IN  /\ NetValue(ret.result.best_overall, f) >= NetValue(ret.result.runner_up, f)
        /\ NetValue(ret.result.runner_up, f) >= NetValue(ret.result.alternative, f)

\* the consistency pass exchanged the model's best_overall and runner_up
\* (the model's entries are named after the slot they came in)
Swapped == ret.result.best_overall.name = "runner_up"

\* C4: at frequency 1 the consistency pass swaps best_overall and runner_up
\* exactly when runner_up.reward - runner_up.fee/365 > best.reward - best.fee/365
\* and runner_up.reward > 0.
C4_SwapBySinglePurchaseNet ==
  (op = "analyze_and_recommend" /\ ret.path = "model"
     /\ {"best_overall", "runner_up"} \subseteq arg.reply.result.has
     /\ Frequency(lower(arg.transaction.original_query)) = 1) =>
    (Swapped <=>
       (DailyNet(arg.reply.result.runner_up) > DailyNet(arg.reply.result.best_overall)
          /\ arg.reply.result.runner_up.reward_amount > 0))

\* C5: one net-value formula is applied uniformly (reward - fee/365 at
\* multiplier 1, reward * multiplier - fee above 1): the order every reordering
\* step of ClaudeService leaves is one that formula would not exchange again.
C5_UniformNetValue ==
  (op \in {"analyze_and_recommend", "_fallback_recommendation"}
     /\ {"best_overall", "runner_up"} \subseteq ret.result.has) =>
    LET f == Frequency(lower(arg.transaction.original_query))
    IN  ~(/\ NetValue(ret.result.runner_up, f) > NetValue(ret.result.best_overall, f)
          /\ ret.result.runner_up.reward_amount > 0)

\* C6: no reordering step promotes a zero-reward candidate: an entry that ends
\* as best_overall and was not best_overall before has reward_amount > 0; here
\* the reordering of get_fallback_recommendation.
C6_NoZeroRewardPromoted ==
  op = "get_fallback_recommendation" =>
    (ret.response.recommendation.best_overall.name # arg.before.best_overall.name
       => ret.response.recommendation.best_overall.reward_amount > 0)

\* the start of the first number that "%" follows at once, 0 for none
PercentToken(s) ==
  LET M == {i \in DOMAIN s : IsDigit(s[i]) /\ NumberEnd(s, i) <= Len(s)
                               /\ s[NumberEnd(s, i)] = "%"}
  IN  IF M = {} THEN 0 ELSE SetMin(M)

\* the start of the first number that "x" or "X" follows at once, 0 for none
MultiplierToken(s) ==
  LET M == {i \in DOMAIN s : IsDigit(s[i]) /\ NumberEnd(s, i) <= Len(s)
                               /\ s[NumberEnd(s, i)] \in {"x", "X"}}
  IN  IF M = {} THEN 0 ELSE SetMin(M)

HasPointWord(s) == Contains(s, "point") \/ Contains(s, "mile")

Normalizers ==
  {"compute_reward_amount", "compute_reward_amount_cs", "compare_cards.reward_amount"}

\* C7: every normalizer returns amount x pct/100 for every rate string that
\* holds a number immediately followed by "%", whatever follows the "%".
C7_PercentRule ==
  (op \in Normalizers /\ arg.rate_str # None /\ PercentToken(arg.rate_str) # 0) =>
    ret = Ok(Round2(PercentReward(arg.amount,
                                  Group1(arg.rate_str, PercentToken(arg.rate_str)))))

\* C8: for a rate string with no percent token, a number immediately followed
\* by "x" or "X" is a points multiplier only if the string holds "point" or
\* "mile", and then the reward is amount x multiplier x 0.015.
C8_MultiplierRule ==
  (op \in Normalizers /\ arg.rate_str # None /\ PercentToken(arg.rate_str) = 0
     /\ MultiplierToken(arg.rate_str) # 0) =>
    LET points == Ok(Round2(PointsReward(arg.amount,
                              Group1(arg.rate_str, MultiplierToken(arg.rate_str)))))
    IN  IF HasPointWord(arg.rate_str) THEN ret = points ELSE ret # points

\* C9: the normalizers never raise, and return the default amount x 0.02 for
\* every rate value with neither a percent token nor a multiplier token
\* accompanied by "point" / "mile" (None and garbage included).
C9_DefaultRule ==
  (op \in Normalizers
     /\ (arg.rate_str = None
           \/ (/\ PercentToken(arg.rate_str) = 0
               /\ ~(MultiplierToken(arg.rate_str) # 0 /\ HasPointWord(arg.rate_str))))) =>
    ret = Ok(Round2(DefaultReward(arg.amount)))

\* C10: calculate_reward uses the rate stored under transaction.category when
\* that key is present, whatever the rate (0 included), and default_rate only
\* when it is absent; a cashback card yields amount x rate/100 in cents.
C10_StoredRateUsed ==
  (op = "calculate_reward" /\ arg.card.reward_structure.kind = "mapping"
     /\ arg.card.reward_structure.reward_type = "cashback"
     /\ arg.card.reward_structure.default_rate # Absent) =>
    LET rs   == arg.card.reward_structure
        rate == IF arg.transaction.category \in DOMAIN rs.categories
                THEN rs.categories[arg.transaction.category]
                ELSE rs.default_rate
    IN  ret = Ok(Round2(Frac(arg.transaction.amount * rate, 1000)))

\* the absolute value
Abs(n) == IF n < 0 THEN -n ELSE n

\* C11: for a points card calculate_reward multiplies amount x rate/100 by the
\* card's point_value (0.01 when unspecified) before rounding to cents; for any
\* other reward_type the point_value has no effect.  amount x rate is in
\* thousandths of a cent, point_value in thousandths of a dollar.
C11_PointValueApplied ==
  (op = "calculate_reward" /\ arg.card.reward_structure.kind = "mapping") =>
    LET rs    == arg.card.reward_structure
        raw   == arg.transaction.amount * RateFor(rs, arg.transaction.category)
        value == IF rs.point_value = Absent THEN 10 ELSE rs.point_value
    IN  /\ ret.kind = "ok"
        /\ IF rs.reward_type = "points"
           THEN 2 * Abs(1000000 * ret.value - raw * value) <= 1000000
           ELSE 2 * Abs(1000 * ret.value - raw) <= 1000

\* a points card without a point_value earned $100 x 4% x 0.01 = $0.04
C11_Witness ==
  /\ op = "calculate_reward"
  /\ arg.card.reward_structure.kind = "mapping"
  /\ arg.card.reward_structure.reward_type = "points"
  /\ arg.card.reward_structure.point_value = Absent
  /\ ret = Ok(4)

\* C12: calculate_reward never raises; for a reward_structure that is missing,
\* not valid JSON or not a mapping it returns 0.0, and it leaves the card and
\* the transaction unchanged.
C12_NeverRaises ==
  [][op' = "calculate_reward" =>
       /\ ret'.kind = "ok"
       /\ arg' = arg
       /\ (arg.card.reward_structure.kind # "mapping" => ret'.value = 0)]_vars

\* a call on a card without a usable reward_structure, for a purchase of $100
C12_Witness ==
  /\ op = "calculate_reward"
  /\ arg.card.reward_structure.kind \in {"missing", "invalid", "not_mapping"}
  /\ arg.transaction.amount = 10000
  /\ ret = Ok(0)

\* the category name in lower case
LowerCategory(category) == IF category = "Dining" THEN "dining" ELSE category

\* C13: category matching is case-insensitive: a transaction whose category
\* differs only in letter case from a key of categories ("Dining" against
\* "dining") earns that key's rate (here a non-zero one, on a cashback card).
C13_CaseInsensitiveCategory ==
  (op = "calculate_reward" /\ arg.card.reward_structure.kind = "mapping"
     /\ arg.card.reward_structure.reward_type = "cashback"
     /\ LowerCategory(arg.transaction.category)
          \in DOMAIN arg.card.reward_structure.categories
     /\ arg.card.reward_structure.categories[LowerCategory(arg.transaction.category)] # 0) =>
    LET rs   == arg.card.reward_structure
        rate == rs.categories[LowerCategory(arg.transaction.category)]
    IN  ret = Ok(Round2(Frac(arg.transaction.amount * rate, 1000)))

\* the recommendation has a best_overall with a numeric reward, and the
\* transaction a query text (or none)
UsableImpactInput ==
  /\ arg.recommendation.kind = "dict"
  /\ arg.recommendation.best_overall.kind = "dict"
  /\ arg.recommendation.best_overall.reward = "number"
  /\ arg.transaction.original_query # None

\* C16: calculate_financial_impact reports opportunity_cost =
\* max(0, best_overall.reward_amount - 0.02 x amount), never negative, in
\* dollars with two decimals (the figure is in cents, the nearest one).
C16_OpportunityCost ==
  (op = "calculate_financial_impact" /\ UsableImpactInput) =>
    LET diff  == 50 * arg.recommendation.best_overall.reward_amount - arg.transaction.amount
        exact == IF diff > 0 THEN diff ELSE 0
    IN  /\ ret.opportunity_cost.kind = "$ more than basic 2% card"
        /\ ret.opportunity_cost.figure >= 0
        /\ 2 * Abs(50 * ret.opportunity_cost.figure - exact) <= 50

\* amount 5.50 with reward 0.22 gave 0.11
C16_Witness ==
  /\ op = "calculate_financial_impact"
  /\ UsableImpactInput
  /\ arg.transaction.amount = 550
  /\ arg.recommendation.best_overall.reward_amount = 22
  /\ ret.opportunity_cost.figure = 11

\* the multiplier of the query by the rule of the specification
ClaimedFrequency(query) ==
  LET q == lower(query)
  IN  IF AnyIn({"every week", "weekly"}, q) THEN 52
      ELSE IF AnyIn({"every month", "monthly"}, q) THEN 12
      ELSE IF AnyIn({"every day", "daily"}, q) THEN 365
      ELSE 1

\* C17: the annual projection equals reward_amount x N - annual_fee (in whole
\* dollars), N the detected multiplier for a recurring purchase and 48
\* otherwise, for every amount >= 0, amount 0 included.
C17_AnnualProjection ==
  (op = "calculate_financial_impact" /\ UsableImpactInput) =>
    LET best == arg.recommendation.best_overall
        f    == ClaimedFrequency(OriginalQuery(arg.transaction))
        N    == IF f > 1 THEN f ELSE 48
    IN  ret.annual_projection.figure
          = RoundDiv(best.reward_amount * N - 100 * best.annual_fee, 100)

\* the sentences that say the figure is unavailable
UnavailableSentences ==
  {"Unable to calculate without recommendation", "Calculation unavailable",
   "Analysis unavailable"}

\* C18: calculate_financial_impact never raises, and when the recommendation
\* is missing or empty or has no usable best_overall (absent, null, zero or
\* non-numeric reward) both strings say that the figure is unavailable.
C18_UnavailableSaid ==
  (op = "calculate_financial_impact"
     /\ (\/ arg.recommendation.kind \in {"none", "empty"}
         \/ arg.recommendation.best_overall.kind \in {"absent", "null"}
         \/ arg.recommendation.best_overall.reward \in {"absent", "null", "text"}
         \/ arg.recommendation.best_overall.reward_amount = 0)) =>
    /\ ret.opportunity_cost.kind \in UnavailableSentences
    /\ ret.annual_projection.kind \in UnavailableSentences

\* C20: the fallback computation keeps no state between requests: every call
\* leaves the module-level table FALLBACK_RESPONSES as it was written, and
\* returns what a first call with the same query returns.
C20_FallbackStateless ==
  op = "get_fallback_recommendation" =>
    /\ table = FALLBACK_RESPONSES
    /\ ret = get_fallback_recommendation(FALLBACK_RESPONSES, arg.query)

C15_OriginalQueryKept ==
  /\ (op = "parse_transaction" /\ ret.kind = "ok") =>
       ret.value.original_query = arg.query
  /\ (op = "optimize_payment" /\ ret.path = "pipeline") =>
       ret.financial_impact.annual_projection.frequency_text
         = FrequencyText(ClaimedFrequency(arg.query))

\* C19: without credentials, the query "buying $5.50 coffee at Starbucks"
\* yields a recommendation whose best_overall is Capital One Savor with
\* reward_amount 0.22.
C19_CoffeeAtStarbucks ==
  (op = "optimize_payment" /\ arg.query = CoffeeQuery
     /\ arg.parse_reply.kind = "no_client") =>
    /\ ret.path = "pipeline"
    /\ ret.recommendation.best_overall.name = "Capital One Savor"
    /\ ret.recommendation.best_overall.reward_amount = 22

\* C30: the three rate-string normalizers agree: for every rate string and
\* amount, the reward of the parser inside compare_cards equals the reward of
\* compute_reward_amount in get_fallback_recommendation, which equals the
\* reward of compute_reward_amount in _fallback_recommendation.
C30_NormalizersAgree ==
  /\ op = "compare_cards.reward_amount" =>
       ret = Ok(compute_reward_amount(arg.rate_str, arg.amount))
  /\ op = "compute_reward_amount" =>
       ret = Ok(compute_reward_amount_cs(arg.rate_str, arg.amount))

\* _fallback_recommendation exchanged the two entries it had written
FallbackSwapped ==
  ret.result.best_overall.name = Recommendations(arg.transaction.category).runner_up.name

\* the ai_reasoning texts that speak of the net value (a reordering step wrote
\* them, in place of or after the author's text)
NetValueTexts ==
  {"Higher net value", "Lower net value despite good rewards",
   "orig | Higher net value for this purchase"}

\* C27: whenever a reordering step exchanges best_overall and runner_up, the
\* ai_reasoning of both the new best_overall and the new runner_up is rewritten
\* to state the net-value comparison; here the consistency pass of
\* analyze_and_recommend and _fallback_recommendation.
C27_SwapRewritesBoth ==
  /\ (op = "analyze_and_recommend" /\ ret.path = "model" /\ Swapped) =>
       /\ ret.result.best_overall.ai_reasoning \in NetValueTexts
       /\ ret.result.runner_up.ai_reasoning \in NetValueTexts
  /\ (op \in {"analyze_and_recommend", "_fallback_recommendation"}
        /\ ret.path = "fallback" /\ FallbackSwapped) =>
       /\ ret.result.best_overall.ai_reasoning \in NetValueTexts
       /\ ret.result.runner_up.ai_reasoning \in NetValueTexts

\* a recommendation entry says that it is fallback or demo data
Labelled(e) == e.data_source = FallbackLabel

\* C26: every recommendation produced by a degraded path is labelled as such:
\* each entry of a recommendation returned by _fallback_recommendation and by
\* get_fallback_recommendation carries a "fallback" or "demo" marker.
C26_DegradedLabelled ==
  /\ (op \in {"analyze_and_recommend", "_fallback_recommendation"}
        /\ ret.path = "fallback") =>
       /\ Labelled(ret.result.best_overall)
       /\ Labelled(ret.result.runner_up)
  /\ op = "get_fallback_recommendation" =>
       \A i \in 1..3 : Labelled(ret.response.recommendation[Slots[i]])

\* C25: the response of optimize_payment's fallback path has the same shape as
\* the normal response: the top-level fields transaction, market_analysis,
\* recommendation and financial_impact.
C25_SameShape ==
  op = "optimize_payment" =>
    ret.keys = {"transaction", "market_analysis", "recommendation", "financial_impact"}

\* C24: optimize_payment has no error outcome: for every query and every
\* combination of collaborator outcomes it returns a response whose
\* recommendation contains a best_overall entry.
C24_AlwaysBestOverall ==
  op = "optimize_payment" =>
    /\ ret.path = "pipeline" => "best_overall" \in ret.recommendation.has
    /\ ret.path = "fallback" => ret.response.recommendation.best_overall.name # ""

\* C23: parse_transaction is total: for every query and every collaborator
\* state it returns a transaction with a merchant, a category and an amount
\* >= 0, and never raises.
C23_ParseTotal ==
  op = "parse_transaction" =>
    /\ ret.kind = "ok"
    /\ ret.value.amount >= 0
    /\ ret.value.merchant # ""
    /\ ret.value.category # ""

\* C22: each model invocation in analyze_and_recommend and
\* extract_discovered_cards is attempted at most once; if there is no client,
\* or the single attempt times out, errors, or returns a reply that cannot be
\* parsed or processed, the method returns its local fallback result and no
\* exception reaches the caller.
C22_OneAttemptThenFallback ==
  /\ ret.calls <= 1
  /\ op # "raised"
  /\ (op = "returned" /\ (~arg.client \/ arg.outcome # "json")) =>
       ret.value = "fallback"

\* the positions of the results of a list that the filter finds credible
CredibleOf(results) == {j \in DOMAIN results : Credibility(results[j]) # ""}

\* the searches that ended by returning a list
ReturnedSearches == {i \in 1..3 : ret.tasks[i].kind = "returned"}

\* the number of credible results of search i, 0 for a search that raised
CredibleCount(i) ==
  IF i \in ReturnedSearches THEN Cardinality(CredibleOf(ret.tasks[i].results)) ELSE 0

ActiveRows == {i \in DOMAIN arg.cards : arg.cards[i].is_active}

RowReward(i) == calculate_reward(arg.cards[i], arg.transaction)

\* C28: get_best_card_from_portfolio returns the active card with the highest
\* calculate_reward for the transaction, the first such card in query order on
\* ties, ignoring annual fees, and None when no active card yields a reward
\* greater than 0; for the six seeded demo cards and {amount 5.50, category
\* dining} it returns Capital One Savor with reward_amount 0.22.
C28_BestFromPortfolio ==
  op = "get_best_card_from_portfolio" =>
    /\ IF \A i \in ActiveRows : RowReward(i) <= 0
       THEN ~ret.found
       ELSE \E i \in ActiveRows :
              /\ ret.found
              /\ ret.card = arg.cards[i].name
              /\ ret.reward_amount = RowReward(i)
              /\ \A j \in ActiveRows : RowReward(j) <= RowReward(i)
              /\ \A j \in ActiveRows : RowReward(j) = RowReward(i) => i <= j
    /\ (arg.cards = demo_cards /\ arg.transaction = [category |-> "dining", amount |-> 550]) =>
         (ret.found /\ ret.card = "Capital One Savor" /\ ret.reward_amount = 22)

\* three active cards of which the second and the third tie on the highest
\* reward, the third with the lower fee: the second is returned
C28_Witness ==
  /\ op = "get_best_card_from_portfolio"
  /\ Len(arg.cards) = 3
  /\ ActiveRows = {1, 2, 3}
  /\ RowReward(1) < RowReward(2)
  /\ RowReward(2) = RowReward(3)
  /\ arg.cards[2].annual_fee > arg.cards[3].annual_fee
  /\ ret.card = "B"

\* the seeded table and the coffee purchase
C28_DemoWitness ==
  /\ op = "get_best_card_from_portfolio"
  /\ arg.cards = demo_cards
  /\ arg.transaction = [category |-> "dining", amount |-> 550]
  /\ ret.card = "Capital One Savor"

\* no run of seed_demo_data is under way, and at least one has been made
SeedingOver ==
  /\ \A p \in Processes : arg.pc[p].phase \in {"idle", "done"}
  /\ \E p \in Processes : arg.pc[p].phase = "done"

\* C29: seed_demo_data is idempotent and race-safe: after any number of runs,
\* sequential or interleaved between processes sharing the database, the
\* database contains each of the six demo cards exactly once and each of the
\* three demo transactions exactly once, every seeded transaction references
\* an existing card, and no run terminates with an error.
C29_SeedIdempotent ==
  SeedingOver =>
    /\ ret.cards = {demo_cards[i].name : i \in DOMAIN demo_cards}
    /\ \A t \in DOMAIN demo_transactions : ret.transactions[t] = 1
    /\ \A t \in DOMAIN demo_transactions :
         ret.transactions[t] > 0 => demo_transactions[t].recommended_card_id \in ret.cards
    /\ ret.errors = 0

====
